---------------------------- MODULE Spec2Model ----------------------------
(***************************************************************************)
(* Model of the Recommendations Wall API (src/main.py): the Review         *)
(* validator, POST /reviews (create_review), GET /top (get_top_tags) and   *)
(* the S3-compatible object store they call.                               *)
(*                                                                         *)
(* Text is a sequence of one-character strings, so that the validator's    *)
(* slicing and replacing can be computed.  The absent value None is a      *)
(* value that is no text.  avg_stars is kept in tenths (40 is 4.0).        *)
(***************************************************************************)
EXTENDS Integers, Sequences, FiniteSets, TLC

VARIABLES
    store,      \* the bucket under reviews/: uuid -> [LastModified, Body]
    clock,      \* the time, stamped on objects and reviews
    issued,     \* the uuids uuid4() has returned so far
    pc,         \* per POST /reviews request: where the handler is
    req,        \* per request: the submitted body
    rid,        \* per request: review_id, while create_review runs
    rts,        \* per request: timestamp, while create_review runs
    resp,       \* per request: the response sent
    puts,       \* every put_object call issued: [Key, by, replaced]
    top,        \* the response of the latest GET /top
    scan,       \* what the latest GET /top did: the listing it got, the keys it
                \* called get_object on, those that failed, those it parsed, and
                \* the reviews list it built
    snap,       \* the store as it was when the latest GET /top ran
    arg,        \* the value handed to the validator (validator specification)
    raised      \* whether the validator raised on arg

vars == <<store, clock, issued, pc, req, rid, rts, resp, puts,
          top, scan, snap, arg, raised>>

-----------------------------------------------------------------------------
(* Text *)

None == <<"None">>

Digits == {"0", "1", "2", "3", "4", "5", "6", "7", "8", "9"}

\* c * n
Rep(c, n) == [i \in 1..n |-> c]

Min(a, b) == IF a < b THEN a ELSE b

\* v[:n]
Take(v, n) == SubSeq(v, 1, Min(n, Len(v)))

\* v.replace(c, '')
Remove(v, c) == SelectSeq(v, LAMBDA x : x # c)

\* c in v
Contains(v, c) == \E i \in 1..Len(v) : v[i] = c

\* v.isdigit(): false of the empty string
IsDigitStr(v) == Len(v) > 0 /\ \A i \in 1..Len(v) : v[i] \in Digits

\* any(char.isdigit() for char in v)
AnyDigit(v) == \E i \in 1..Len(v) : v[i] \in Digits

\* bool(v) of an Optional[str]
Truthy(v) == v # None /\ Len(v) > 0

-----------------------------------------------------------------------------
(* Review: the validator *)

\* no_email_or_phone without the look at the first 15 characters
no_email_or_phone_first10(v) ==
    /\ Truthy(v)
    /\ \/ Contains(v, "@")
       \/ IsDigitStr(Take(Remove(Remove(Remove(Remove(v, " "), "-"), "("), ")"), 10))

\* Review.no_email_or_phone: TRUE when it raises ValueError
no_email_or_phone(v) ==
    /\ Truthy(v)
    /\ (Contains(v, "@") \/ AnyDigit(Take(Remove(v, " "), 15)))
    /\ \/ Contains(v, "@")
       \/ IsDigitStr(Take(Remove(Remove(Remove(Remove(v, " "), "-"), "("), ")"), 10))


\* Field(..., min_length=1, max_length=100), Field(..., min_length=1, max_length=30),
\* Field(None, max_length=300), Field(..., ge=1, le=5)
TitleMax == 100
TagMax == 30
CommentMax == 300
StarsMin == 1
StarsMax == 5

\* ReviewErrors without the le=5 of stars
ReviewErrorsNoUpper(body) ==
    {f \in {"title"} : \/ Len(body.title) < 1
                       \/ Len(body.title) > TitleMax
                       \/ no_email_or_phone(body.title)}
    \cup
    {f \in {"tag"} : \/ Len(body.tag) < 1
                     \/ Len(body.tag) > TagMax
                     \/ no_email_or_phone(body.tag)}
    \cup
    {f \in {"stars"} : body.stars < StarsMin}
    \cup
    {f \in {"comment"} : /\ body.comment # None
                         /\ \/ Len(body.comment) > CommentMax
                            \/ no_email_or_phone(body.comment)}

\* The fields of a submitted body that Review(...) refuses.  A field's
\* constraints are checked first and its validator after them; either
\* failing is an error of that field.
ReviewErrors(body) ==
    {f \in {"title"} : \/ Len(body.title) < 1
                       \/ Len(body.title) > TitleMax
                       \/ no_email_or_phone(body.title)}
    \cup
    {f \in {"tag"} : \/ Len(body.tag) < 1
                     \/ Len(body.tag) > TagMax
                     \/ no_email_or_phone(body.tag)}
    \cup
    {f \in {"stars"} : body.stars < StarsMin \/ body.stars > StarsMax}
    \cup
    {f \in {"comment"} : /\ body.comment # None
                         /\ \/ Len(body.comment) > CommentMax
                            \/ no_email_or_phone(body.comment)}

-----------------------------------------------------------------------------
(* JSON and the object store *)

\* json.dumps of a parsed value: the text of a JSON object or array
JsonDumps(value) ==
    [fmt |-> IF value.type = "dict" THEN "object" ELSE "array",
     members |-> value.items]

\* json.loads of a body: raises on bytes that are no JSON text
JsonLoads(body) ==
    [ok |-> body.fmt # "invalid",
     value |-> [type |-> IF body.fmt = "object" THEN "dict" ELSE "list",
                items |-> body.members]]

\* f"reviews/{review_id}.json"
Key(review_id) == <<"reviews/", review_id, ".json">>

\* The store keeps its objects in key order (the order it lists them in);
\* a uuid's text is fixed-width, so key order is the order of the uuids.
KeyBefore(k1, k2) == k1[2] < k2[2]

HasKey(st, k) == \E i \in 1..Len(st) : st[i].Key = k

ObjectAt(st, k) == st[CHOOSE i \in 1..Len(st) : st[i].Key = k]

\* s3_client.put_object(Bucket, Key, Body): creates the object, or replaces
\* the one stored under the key
PutObject(st, k, body, now) ==
    LET obj == [Key |-> k, LastModified |-> now, Body |-> body]
        n == Cardinality({i \in 1..Len(st) : KeyBefore(st[i].Key, k)})
    IN  IF HasKey(st, k)
        THEN [i \in 1..Len(st) |-> IF st[i].Key = k THEN obj ELSE st[i]]
        ELSE SubSeq(st, 1, n) \o <<obj>> \o SubSeq(st, n + 1, Len(st))

-----------------------------------------------------------------------------
(* POST /reviews *)

MaxRequests == 2
MaxClock == 1
MaxUUID == 5

Requests == 1..MaxRequests
UUIDs == 1..MaxUUID

\* review_data of create_review
ReviewData(review_id, review, timestamp) ==
    [type |-> "dict",
     items |-> [id |-> review_id, title |-> review.title, tag |-> review.tag,
                stars |-> review.stars, comment |-> review.comment,
                timestamp |-> timestamp]]

\* A key taken from the review instead of the uuid
ReviewKeyByStars(review_id, review) == Key(review.stars)

\* key of create_review
ReviewKey(review_id, review) == Key(review_id)

-----------------------------------------------------------------------------
(* GET /top *)

\* list_objects_v2 is called once, with no MaxKeys and no ContinuationToken:
\* the store answers with one page of at most this many keys
ListMaxKeys == 1000
\* [:50] of the scan and [:10] of recent_reviews
ScanLimit == 50
RecentLimit == 10

\* s3_client.list_objects_v2(Bucket, Prefix='reviews/'): the first page, in key
\* order; the response has no 'Contents' when no key matches
ListObjectsV2(st) ==
    LET n == Min(Len(st), ListMaxKeys)
    IN  IF n = 0
        THEN [KeyCount |-> 0]
        ELSE [KeyCount |-> n,
              Contents |-> [i \in 1..n |->
                  [Key |-> st[i].Key, LastModified |-> st[i].LastModified]]]

Largest(S) == CHOOSE v \in S : \A w \in S : w <= v

\* The places of the first n items of a stable sort by descending key of a
\* list whose keys are ks: for each key value in vals, largest first, the
\* places holding it, in their order
RECURSIVE OrderFrom(_, _, _)
OrderFrom(ks, vals, n) ==
    IF n <= 0 \/ vals = {}
    THEN <<>>
    ELSE LET m == Largest(vals)
             these == SelectSeq([i \in 1..Len(ks) |-> i], LAMBDA i : ks[i] = m)
         IN  Take(these, n) \o OrderFrom(ks, vals \ {m}, n - Len(these))

\* sorted(s, key=..., reverse=True)[:n], ks[i] being the key of s[i]: a
\* stable sort, items of equal key keeping their order
SortedReverse(s, ks, n) ==
    LET order == OrderFrom(ks, {ks[i] : i \in 1..Len(ks)}, n)
    IN  [k \in 1..Len(order) |-> s[order[k]]]

\* The twentieths at which Python's round(x, 1) of the float x goes up: a tie
\* is decided by the float nearest to x, which lies above or below it.
RoundsUp == {1, 9, 11, 13, 15, 21, 27, 31, 35, 37, 47, 49, 55, 57, 59, 67,
             69, 75, 77, 79, 83, 89, 93, 95, 99}

\* The average cut to one decimal instead of rounded
Round1Down(total_stars, count) == (10 * total_stars) \div count

\* round(total_stars / count, 1), in tenths
Round1(total_stars, count) ==
    LET q == (20 * total_stars) \div count
    IN  IF (20 * total_stars) % count = 0 /\ q % 2 = 1
        THEN IF q \in RoundsUp THEN (q + 1) \div 2 ELSE (q - 1) \div 2
        ELSE (20 * total_stars + count) \div (2 * count)

\* review['tag'] or review['stars'] raises: the value is no dict, or lacks the key
StatsRaise(review) ==
    \/ review.type # "dict"
    \/ "tag" \notin DOMAIN review.items
    \/ "stars" \notin DOMAIN review.items

RECURSIVE SumStars(_, _)
SumStars(reviews, tag) ==
    IF reviews = <<>>
    THEN 0
    ELSE (IF Head(reviews).items.tag = tag THEN Head(reviews).items.stars ELSE 0)
         + SumStars(Tail(reviews), tag)

\* tag_stats: one entry per tag, in the order the tags first appear
TagStats(reviews) ==
    LET n == Len(reviews)
        firsts == SelectSeq([i \in 1..n |-> i],
                     LAMBDA i : \A j \in 1..(i - 1) :
                                   reviews[j].items.tag # reviews[i].items.tag)
    IN  [k \in 1..Len(firsts) |->
            LET tag == reviews[firsts[k]].items.tag
            IN  [tag |-> tag,
                 count |-> Cardinality({i \in 1..n : reviews[i].items.tag = tag}),
                 total_stars |-> SumStars(reviews, tag)]]

\* top_tags: tag_stats sorted by count, largest first
TopTags(reviews) ==
    LET stats == TagStats(reviews)
        byCount == SortedReverse(stats, [k \in 1..Len(stats) |-> stats[k].count],
                                 Len(stats))
    IN  [k \in 1..Len(byCount) |->
            [tag |-> byCount[k].tag,
             count |-> byCount[k].count,
             avg_stars |-> Round1(byCount[k].total_stars, byCount[k].count)]]

\* The objects the scan loops over
Selected(response) ==
    SortedReverse(response.Contents,
                  [i \in 1..Len(response.Contents) |->
                      response.Contents[i].LastModified],
                  ScanLimit)

\* The loop leaving at the first object it cannot read (break for continue)
ReadSelectedUntilError(st, selected, fail) ==
    LET bad == {k \in 1..Len(selected) :
                   \/ selected[k].Key \in fail
                   \/ ~JsonLoads(ObjectAt(st, selected[k].Key).Body).ok}
    IN  SubSeq(selected, 1,
               IF bad = {} THEN Len(selected)
               ELSE (CHOOSE k \in bad : \A j \in bad : k <= j) - 1)

\* The loop over the selected objects: get_object and json.loads in a try
\* whose except moves on to the next object.  The objects read, in order.
ReadSelected(st, selected, fail) ==
    SelectSeq(selected,
              LAMBDA obj : /\ obj.Key \notin fail
                           /\ JsonLoads(ObjectAt(st, obj.Key).Body).ok)

\* recent_reviews without the [:10]
RecentReviewsAll(reviews) == reviews

\* recent_reviews of the response
RecentReviews(reviews) == Take(reviews, RecentLimit)

\* The early return on a listing without 'Contents'
EmptyResult == [top_tags |-> <<>>, recent_reviews |-> <<>>]

\* The except of get_top_tags
ReadingError == [status |-> 500, body |-> [detail |-> "Error reading storage"]]

\* The statistics and the response, from the reviews list
Respond(reviews) ==
    IF \E k \in 1..Len(reviews) : StatsRaise(reviews[k])
    THEN ReadingError
    ELSE [status |-> 200,
          body |-> [top_tags |-> TopTags(reviews),
                    recent_reviews |-> RecentReviews(reviews),
                    total_reviews |-> Len(reviews)]]

\* get_top_tags once the listing has 'Contents'
ScanAndRespond(st, response, fail) ==
    LET selected == Selected(response)
        read == ReadSelected(st, selected, fail)
        reviews == [k \in 1..Len(read) |->
                       JsonLoads(ObjectAt(st, read[k].Key).Body).value]
    IN  [top |-> Respond(reviews),
         scan |-> [response |-> response,
                   gets |-> [k \in 1..Len(selected) |-> selected[k].Key],
                   failed |-> {selected[k].Key : k \in 1..Len(selected)} \cap fail,
                   parsed |-> [k \in 1..Len(read) |-> read[k].Key],
                   reviews |-> reviews]]

\* get_top_tags without the early return: response['Contents'] raises
get_top_tags_no_guard(st, fail) ==
    LET response == ListObjectsV2(st)
    IN  IF "Contents" \notin DOMAIN response
        THEN [top |-> ReadingError,
              scan |-> [response |-> response, gets |-> <<>>, failed |-> {},
                        parsed |-> <<>>, reviews |-> <<>>]]
        ELSE ScanAndRespond(st, response, fail)

\* get_top_tags against the store st, get_object failing on the keys fail:
\* the response, and what the request did
get_top_tags(st, fail) ==
    LET response == ListObjectsV2(st)
    IN  IF "Contents" \notin DOMAIN response
        THEN [top |-> [status |-> 200, body |-> EmptyResult],
              scan |-> [response |-> response, gets |-> <<>>, failed |-> {},
                        parsed |-> <<>>, reviews |-> <<>>]]
        ELSE ScanAndRespond(st, response, fail)

-----------------------------------------------------------------------------
(* The requests and stores explored *)

Movie == <<"M", "o", "v", "i", "e">>
Book == <<"B", "o", "o", "k">>
Up == <<"U", "p">>

\* Submitted bodies: acceptable ones, and ones that break one rule each
Submissions ==
    { [title |-> Up, tag |-> Movie, stars |-> 5, comment |-> None],
      [title |-> Rep("a", TitleMax), tag |-> Rep("b", TagMax), stars |-> 1,
       comment |-> Rep("c", CommentMax)],
      [title |-> Up, tag |-> Movie, stars |-> 0, comment |-> None],
      [title |-> Up, tag |-> Movie, stars |-> 6, comment |-> None],
      [title |-> <<>>, tag |-> Movie, stars |-> 3, comment |-> None],
      [title |-> Rep("a", TitleMax + 1), tag |-> Movie, stars |-> 3, comment |-> None],
      [title |-> Up, tag |-> <<>>, stars |-> 3, comment |-> None],
      [title |-> Up, tag |-> Rep("b", TagMax + 1), stars |-> 3, comment |-> None],
      [title |-> Up, tag |-> Movie, stars |-> 3, comment |-> Rep("c", CommentMax + 1)],
      [title |-> <<"a", "@", "b">>, tag |-> Movie, stars |-> 3, comment |-> None],
      [title |-> Up, tag |-> Rep("5", 10), stars |-> 3, comment |-> None],
      [title |-> Up, tag |-> Movie, stars |-> 3,
       comment |-> <<"(", "5", "5", "5", ")", " ", "1", "2", "3", "-", "4", "5", "6", "7">>] }

\* Bodies of stored objects
StoredReview(id, tag, stars, timestamp) ==
    JsonDumps(ReviewData(id, [title |-> Up, tag |-> tag, stars |-> stars,
                              comment |-> None], timestamp))
NotJson == [fmt |-> "invalid", members |-> <<>>]
JsonArray == [fmt |-> "array", members |-> <<>>]
NoTag(id) == [fmt |-> "object", members |-> [id |-> id, title |-> Up, stars |-> 4]]
NoStars(id) == [fmt |-> "object", members |-> [id |-> id, title |-> Up, tag |-> Book]]

Object(id, modified, body) ==
    [Key |-> Key(id), LastModified |-> modified, Body |-> body]

\* The reviews (Movie, 5), (Book, 4), (Movie, 3)
ExampleStore ==
    <<Object(2, 0, StoredReview(2, Movie, 5, 0)),
      Object(3, 0, StoredReview(3, Book, 4, 0)),
      Object(4, 0, StoredReview(4, Movie, 3, 0))>>

\* A review, an object that is no JSON, and a JSON object that is no review
JunkStore ==
    <<Object(2, 0, StoredReview(2, Book, 4, 0)),
      Object(3, 0, NotJson),
      Object(4, 0, NoTag(4))>>

\* Stores a request can find: written by earlier requests, or with objects
\* put under reviews/ by other means.  Their uuids are 2, 3 and 4.
SmallStores ==
    { <<>>,
      ExampleStore,
      JunkStore,
      <<Object(2, 0, StoredReview(2, Book, 4, 0)),
        Object(4, 0, NotJson)>>,
      <<Object(2, 0, NotJson)>>,
      <<Object(2, 0, NoTag(2)),
        Object(4, 0, StoredReview(4, Movie, 5, 0))>>,
      <<Object(2, 0, StoredReview(2, Movie, 5, 0)),
        Object(4, 0, NoStars(4))>>,
      <<Object(2, 0, JsonArray),
        Object(4, 0, StoredReview(4, Book, 1, 0))>>,
      <<Object(1, 0, StoredReview(1, Movie, 1, 0)),
        Object(2, 1, StoredReview(2, Movie, 1, 0)),
        Object(3, 0, StoredReview(3, Movie, 2, 0)),
        Object(4, 1, StoredReview(4, Movie, 1, 0))>> }

\* Larger stores, of n objects with uuids 1..n.  The modification times rise
\* with the key, fall with it, are all equal, or rise in runs of four; the
\* bodies are reviews, or reviews with every seventh object no JSON.
LargeObject(n, i, times, bodies) ==
    Object(i,
           CASE times = "rising" -> i
             [] times = "falling" -> n - i
             [] times = "equal" -> 0
             [] times = "runs" -> i \div 4,
           IF bodies = "mixed" /\ i % 7 = 0
           THEN NotJson
           ELSE StoredReview(i, <<"t", (<<"a", "b", "c">>)[1 + (i % 3)]>>,
                             1 + ((i * i) % 5), 0))

LargeStore(n, times, bodies) == [i \in 1..n |-> LargeObject(n, i, times, bodies)]

\* Around the two limits of get_top_tags, and around the page of the listing
LargeStores ==
    { LargeStore(n, times, bodies) :
        n \in {RecentLimit - 1, RecentLimit, RecentLimit + 1, RecentLimit + 2,
               ScanLimit - 1, ScanLimit, ScanLimit + 1, ScanLimit + 2},
        times \in {"rising", "falling", "equal", "runs"},
        bodies \in {"reviews", "mixed"} }
    \cup
    { LargeStore(n, times, bodies) :
        n \in {ListMaxKeys, ListMaxKeys + 1},
        times \in {"equal", "runs"},
        bodies \in {"mixed"} }

\* get_object can fail on any of the first MaxFailRank objects of the scan
MaxFailRank == 1

FailChoices(st) ==
    LET response == ListObjectsV2(st)
    IN  IF "Contents" \notin DOMAIN response
        THEN {{}}
        ELSE LET selected == Selected(response)
             IN  SUBSET {selected[k].Key : k \in 1..Min(MaxFailRank, Len(selected))}

-----------------------------------------------------------------------------
(* The state machine *)

NoResponse == [status |-> 0, body |-> [pending |-> TRUE]]

NoScan == [response |-> [pending |-> TRUE], gets |-> <<>>, failed |-> {},
           parsed |-> <<>>, reviews |-> <<>>]

InitWith(stores) ==
    /\ store \in stores
    /\ clock = 0
    /\ issued = {store[i].Key[2] : i \in 1..Len(store)}
    /\ pc = [p \in Requests |-> "idle"]
    /\ req = [p \in Requests |-> [title |-> <<>>, tag |-> <<>>, stars |-> 0,
                                  comment |-> None]]
    /\ rid = [p \in Requests |-> 0]
    /\ rts = [p \in Requests |-> 0]
    /\ resp = [p \in Requests |-> NoResponse]
    /\ puts = <<>>
    /\ top = NoResponse
    /\ scan = NoScan
    /\ snap = <<>>
    /\ raised = "unset"

\* POST /reviews is explored against stores that hold objects
PostStores == {ExampleStore, JunkStore}

Init == InitWith(PostStores) /\ arg = None

\* Time passes
Tick ==
    /\ clock < MaxClock
    /\ clock' = clock + 1
    /\ UNCHANGED <<store, issued, pc, req, rid, rts, resp, puts,
                   top, scan, snap, arg, raised>>

\* POST /reviews arrives: the body is validated into a Review before
\* create_review runs; a refused body is answered 422 and the handler never
\* runs.  Requests are numbered in the order they arrive.
Submit(p, body) ==
    /\ pc[p] = "idle"
    /\ \A q \in Requests : q < p => pc[q] # "idle"
    /\ req' = [req EXCEPT ![p] = body]
    /\ IF ReviewErrors(body) # {}
       THEN /\ pc' = [pc EXCEPT ![p] = "done"]
            /\ resp' = [resp EXCEPT ![p] =
                   [status |-> 422, body |-> [detail |-> ReviewErrors(body)]]]
       ELSE /\ pc' = [pc EXCEPT ![p] = "create_review"]
            /\ UNCHANGED resp
    /\ UNCHANGED <<store, clock, issued, rid, rts, puts,
                   top, scan, snap, arg, raised>>

\* create_review up to the call of put_object: uuid4() and utcnow().
\* uuid4() returns a uuid it has not returned before and that names no
\* stored object.
Generate(p) ==
    /\ pc[p] = "create_review"
    /\ \E id \in UUIDs \ issued :
          /\ rid' = [rid EXCEPT ![p] = id]
          /\ issued' = issued \cup {id}
    /\ rts' = [rts EXCEPT ![p] = clock]
    /\ pc' = [pc EXCEPT ![p] = "put_object"]
    /\ UNCHANGED <<store, clock, req, resp, puts,
                   top, scan, snap, arg, raised>>

\* put_object succeeds and create_review returns
Put(p) ==
    /\ pc[p] = "put_object"
    /\ LET key == ReviewKey(rid[p], req[p])
       IN  /\ store' = PutObject(store, key,
                          JsonDumps(ReviewData(rid[p], req[p], rts[p])), clock)
           /\ puts' = Append(puts, [Key |-> key, by |-> p,
                                    replaced |-> HasKey(store, key)])
           /\ resp' = [resp EXCEPT ![p] =
                  [status |-> 200,
                   body |-> [success |-> TRUE, id |-> rid[p],
                             message |-> "Review saved to cloud storage!",
                             storage_path |-> key]]]
    /\ pc' = [pc EXCEPT ![p] = "done"]
    /\ rid' = [rid EXCEPT ![p] = 0]
    /\ rts' = [rts EXCEPT ![p] = 0]
    /\ UNCHANGED <<clock, issued, req,
                   top, scan, snap, arg, raised>>

\* put_object raises: nothing is stored and the request is answered 500
PutFails(p) ==
    /\ pc[p] = "put_object"
    /\ resp' = [resp EXCEPT ![p] =
           [status |-> 500, body |-> [detail |-> "Storage error"]]]
    /\ pc' = [pc EXCEPT ![p] = "done"]
    /\ rid' = [rid EXCEPT ![p] = 0]
    /\ rts' = [rts EXCEPT ![p] = 0]
    /\ UNCHANGED <<store, clock, issued, req, puts,
                   top, scan, snap, arg, raised>>

\* GET /top, the listing succeeding
GetTop ==
    /\ \E fail \in FailChoices(store) :
          LET r == get_top_tags(store, fail)
          IN  /\ top' = r.top
              /\ scan' = r.scan
    /\ snap' = store
    /\ UNCHANGED <<store, clock, issued, pc, req, rid, rts, resp, puts, arg, raised>>

\* GET /top, list_objects_v2 raising
GetTopListFails ==
    /\ top' = ReadingError
    /\ scan' = [NoScan EXCEPT !.response = [Error |-> "ClientError"]]
    /\ snap' = store
    /\ UNCHANGED <<store, clock, issued, pc, req, rid, rts, resp, puts, arg, raised>>

\* POST /reviews: requests in flight together, against a store that holds
\* earlier objects
Next ==
    \/ Tick
    \/ \E p \in Requests : \E body \in Submissions : Submit(p, body)
    \/ \E p \in Requests : Generate(p)
    \/ \E p \in Requests : Put(p)
    \/ \E p \in Requests : PutFails(p)

Spec == Init /\ [][Next]_vars

\* GET /top: it reads the store and writes nothing, so it is explored against
\* every store of both families
InitTop == InitWith(SmallStores \cup LargeStores) /\ arg = None

NextTop ==
    \/ GetTop
    \/ GetTopListFails

SpecTop == InitTop /\ [][NextTop]_vars

\* The validator alone, on values built of three runs of one character each
MaxRun == 16

RunLengths == {0, 1, 9, 10} \cup (14..MaxRun)

RunChars == {"a", "5", " ", "-", "(", ")", "@"}

ValidatorInputs ==
    {None} \cup
    { Rep(c1, n1) \o Rep(c2, n2) \o Rep(c3, n3) :
        <<c1, c2, c3>> \in RunChars \X RunChars \X RunChars,
        <<n1, n2, n3>> \in RunLengths \X RunLengths \X RunLengths }

InitValidator ==
    /\ InitWith({<<>>})
    /\ arg \in ValidatorInputs

Validate ==
    /\ raised = "unset"
    /\ raised' = IF no_email_or_phone(arg) THEN "raises" ELSE "passes"
    /\ UNCHANGED <<store, clock, issued, pc, req, rid, rts, resp, puts,
                   top, scan, snap, arg>>

SpecValidator == InitValidator /\ [][Validate]_vars

-----------------------------------------------------------------------------
(* The properties *)

\* The rule of the validator as it is described: a value is refused when it
\* has an '@', or when a digit is among its first 15 characters other than
\* spaces and its first 10 characters other than spaces, hyphens and
\* parentheses (all of them when they are fewer) are digits
LooksPersonal(v) ==
    LET unspaced == SelectSeq(v, LAMBDA c : c # " ")
        bare == SelectSeq(v, LAMBDA c : c \notin {" ", "-", "(", ")"})
    IN  \/ \E i \in 1..Len(v) : v[i] = "@"
        \/ /\ \E i \in 1..Len(unspaced) : i <= 15 /\ unspaced[i] \in Digits
           /\ \A i \in 1..Len(bare) : i <= 10 => bare[i] \in Digits

Refused(v) == v # None /\ v # <<>> /\ LooksPersonal(v)

\* A submission that fails validation, as the interface describes it
FailsValidation(body) ==
    \/ body.stars < 1 \/ body.stars > 5
    \/ Len(body.title) = 0 \/ Len(body.title) > 100
    \/ Len(body.tag) = 0 \/ Len(body.tag) > 30
    \/ (body.comment # None /\ Len(body.comment) > 300)
    \/ Refused(body.title) \/ Refused(body.tag) \/ Refused(body.comment)

\* C1: a POST /reviews whose body fails validation is answered 422 in the one
\* step it takes, and that step issues no put and leaves the store as it was
C1_RejectedBeforeWrite ==
    [][\A p \in Requests :
          (pc'[p] # pc[p] /\ FailsValidation(req'[p]))
          => /\ pc[p] = "idle" /\ pc'[p] = "done"
             /\ resp'[p].status = 422
             /\ puts' = puts
             /\ store' = store]_vars

C1_Witness ==
    \E p \in Requests :
        /\ pc[p] = "done" /\ resp[p].status = 422
        /\ req[p].stars = 6
        /\ \E q \in Requests : resp[q].status = 200

\* C2, in a state: every successful submission has issued one put, of a new
\* object at reviews/<id>.json, id being the identifier it returned and
\* storage_path that key; the object holds the submitted review; and the
\* identifiers returned are pairwise distinct
C2_State ==
    /\ \A p \in Requests :
          resp[p].status = 200 =>
              LET id == resp[p].body.id
                  key == <<"reviews/", id, ".json">>
                  mine == {i \in 1..Len(puts) : puts[i].by = p}
              IN  /\ resp[p].body.storage_path = key
                  /\ Cardinality(mine) = 1
                  /\ \A i \in mine : puts[i].Key = key /\ ~puts[i].replaced
                  /\ HasKey(store, key)
                  /\ ObjectAt(store, key).Body.fmt = "object"
                  /\ ObjectAt(store, key).Body.members.id = id
                  /\ ObjectAt(store, key).Body.members.title = req[p].title
                  /\ ObjectAt(store, key).Body.members.tag = req[p].tag
                  /\ ObjectAt(store, key).Body.members.stars = req[p].stars
                  /\ ObjectAt(store, key).Body.members.comment = req[p].comment
    /\ \A p, q \in Requests :
          (p # q /\ resp[p].status = 200 /\ resp[q].status = 200)
          => resp[p].body.id # resp[q].body.id

\* C2, in a step: every object stored before the step is stored after it,
\* unchanged, and the store grows by one object for each submission that
\* succeeds in the step
C2_Step ==
    /\ \A i \in 1..Len(store) : \E j \in 1..Len(store') : store'[j] = store[i]
    /\ Len(store') - Len(store) =
           Cardinality({p \in Requests : resp'[p].status = 200})
           - Cardinality({p \in Requests : resp[p].status = 200})

\* C2: after any interleaving of POST /reviews requests each successful
\* submission has created exactly one new object at reviews/<id>.json for the
\* id it returned, the ids returned are distinct, and no object that existed
\* has been overwritten or changed
C2_OneNewObjectEach == []C2_State /\ [][C2_Step]_vars

C2_Witness ==
    /\ \A p \in Requests : resp[p].status = 200
    /\ Len(puts) = Cardinality(Requests)

\* The listing of the latest GET /top succeeded
ListingOk == "KeyCount" \in DOMAIN scan.response

\* C3: when the store reports no object under reviews/, GET /top answers 200
\* with an empty top_tags and an empty recent_reviews
C3_EmptyStore ==
    (ListingOk /\ scan.response.KeyCount = 0)
    => /\ top.status = 200
       /\ top.body.top_tags = <<>>
       /\ top.body.recent_reviews = <<>>

C3_Witness ==
    ListingOk /\ scan.response.KeyCount = 0 /\ snap = <<>> /\ top.status = 200

\* C4: every successful GET /top response has the fields top_tags,
\* recent_reviews and total_reviews, total_reviews being the number of reviews
\* fetched and parsed
C4_ThreeFields ==
    top.status = 200
    => /\ {"top_tags", "recent_reviews", "total_reviews"} \subseteq DOMAIN top.body
       /\ top.body.total_reviews = Len(scan.parsed)

\* C5: GET /top issues at most 50 get calls, and the objects it fetches are
\* those with the latest modification times among all the objects stored
\* under reviews/ (all of them when fewer than 50 are stored)
C5_FiftyMostRecent ==
    ListingOk
    => LET fetched == {scan.gets[k] : k \in 1..Len(scan.gets)}
           fetchedTimes == {snap[i].LastModified :
                               i \in {j \in 1..Len(snap) : snap[j].Key \in fetched}}
           otherTimes == {snap[i].LastModified :
                             i \in {j \in 1..Len(snap) : snap[j].Key \notin fetched}}
       IN  /\ Len(scan.gets) <= 50
           /\ Cardinality(fetched) = Min(50, Len(snap))
           /\ \A a \in otherTimes : \A b \in fetchedTimes : a <= b

\* The place of a key in the sequence of the keys fetched
GetPlace(k) == CHOOSE i \in 1..Len(scan.gets) : scan.gets[i] = k

\* C6: recent_reviews has at most 10 entries and is the first min(10, n) of
\* the n reviews parsed, which are in descending order of the modification
\* time of their objects, the order the scan took them in
C6_RecentReviews ==
    top.status = 200
    => LET recent == top.body.recent_reviews
           n == Len(scan.parsed)
       IN  /\ Len(recent) <= 10
           /\ Len(recent) = Min(10, n)
           /\ \A k \in 1..Len(recent) :
                 /\ recent[k].type = "dict"
                 /\ recent[k].items = ObjectAt(snap, scan.parsed[k]).Body.members
           /\ \A k \in 1..(n - 1) :
                 /\ ObjectAt(snap, scan.parsed[k]).LastModified
                        >= ObjectAt(snap, scan.parsed[k + 1]).LastModified
                 /\ GetPlace(scan.parsed[k]) < GetPlace(scan.parsed[k + 1])

C6_Witness ==
    /\ top.status = 200
    /\ Len(scan.parsed) > 10
    /\ Len(top.body.recent_reviews) = 10
    /\ scan.failed # {}

\* A parsed value that is a review record
IsReview(v) ==
    v.type = "dict" /\ "tag" \in DOMAIN v.items /\ "stars" \in DOMAIN v.items

RECURSIVE SumCounts(_)
SumCounts(tags) ==
    IF tags = <<>> THEN 0 ELSE Head(tags).count + SumCounts(Tail(tags))

\* The selected objects of the latest GET /top that could not be read:
\* get_object failed, or the body is no JSON
Unreadable ==
    {k \in {scan.gets[i] : i \in 1..Len(scan.gets)} :
        k \in scan.failed \/ ObjectAt(snap, k).Body.fmt = "invalid"}

\* C7: a selected object whose fetch fails or whose body is no JSON is left
\* out and aborts nothing: the reviews parsed are those of all the other
\* selected objects, the request fails only when one of the values parsed is
\* no review record, and otherwise total_reviews, top_tags and recent_reviews
\* are those of the values parsed
C7_UnreadableSkipped ==
    (ListingOk /\ scan.gets # <<>>)
    => /\ {scan.parsed[k] : k \in 1..Len(scan.parsed)}
              = {scan.gets[i] : i \in 1..Len(scan.gets)} \ Unreadable
       /\ Len(scan.parsed) = Len(scan.gets) - Cardinality(Unreadable)
       /\ top.status = 200 <=> \A k \in 1..Len(scan.reviews) : IsReview(scan.reviews[k])
       /\ top.status = 200 =>
              /\ top.body.total_reviews = Len(scan.gets) - Cardinality(Unreadable)
              /\ SumCounts(top.body.top_tags) = top.body.total_reviews
              /\ \A k \in 1..Len(top.body.recent_reviews) :
                    <<"reviews/", top.body.recent_reviews[k].items.id, ".json">>
                        \notin Unreadable

C7_Witness ==
    /\ ListingOk
    /\ top.status = 200
    /\ scan.failed # {}
    /\ Unreadable \ scan.failed # {}
    /\ top.body.total_reviews > 0

\* The stars of the parsed reviews of a tag, summed
StarsOf(reviews, tag) ==
    LET with(s) == Cardinality({k \in 1..Len(reviews) :
                        reviews[k].items.tag = tag /\ reviews[k].items.stars = s})
    IN  with(1) + 2 * with(2) + 3 * with(3) + 4 * with(4) + 5 * with(5)

Distance(a, b) == IF a < b THEN b - a ELSE a - b

\* C8: top_tags has one entry for each tag of the reviews parsed, with the
\* number of reviews of the tag and their average stars to one decimal,
\* entries of larger count first; (Movie, 5), (Book, 4), (Movie, 3) give
\* Movie 2 4.0, then Book 1 4.0
C8_TopTags ==
    top.status = 200
    => LET tt == top.body.top_tags
           rv == scan.reviews
           tags == {rv[k].items.tag : k \in 1..Len(rv)}
       IN  /\ Len(tt) = Cardinality(tags)
           /\ {tt[i].tag : i \in 1..Len(tt)} = tags
           /\ \A i \in 1..Len(tt) :
                 /\ tt[i].count =
                        Cardinality({k \in 1..Len(rv) : rv[k].items.tag = tt[i].tag})
                 /\ 2 * Distance(10 * StarsOf(rv, tt[i].tag),
                                 tt[i].avg_stars * tt[i].count) <= tt[i].count
           /\ \A i, j \in 1..Len(tt) : i < j => tt[i].count >= tt[j].count
           /\ (snap = ExampleStore /\ Len(rv) = 3)
              => tt = <<[tag |-> Movie, count |-> 2, avg_stars |-> 40],
                        [tag |-> Book, count |-> 1, avg_stars |-> 40]>>

C8_Witness ==
    /\ top.status = 200
    /\ snap = ExampleStore
    /\ Len(scan.reviews) = 3
    /\ Len(top.body.top_tags) = 2

\* C9: the validator refuses a value exactly when the value is not empty and
\* has an '@', or has a digit among its first 15 characters other than spaces
\* and digits only as its first 10 characters other than spaces, hyphens and
\* parentheses; None and the empty value pass
C9_PersonalInformation ==
    raised # "unset"
    => (raised = "raises" <=> Refused(arg))

C9_Witness ==
    /\ raised = "raises"
    /\ arg # None
    /\ ~Contains(arg, "@")
    /\ Contains(arg, "-")

\* C10: when the listing succeeds GET /top answers 200, whatever the stored
\* objects hold
C10_NeverFails ==
    ListingOk => top.status = 200

=============================================================================
